---- MODULE Spec2Model ----
(***************************************************************************)
(* A model of src/app.py: the command planner (build_command), the batch   *)
(* orchestrator (App._run), the progress tracker                           *)
(* (App._set_progress_from_line) and the preview generator with its cache. *)
(*                                                                         *)
(* Conventions.  Times are integers in milliseconds.  Python's None for a  *)
(* number is the value None (negative; every real time of the model is     *)
(* >= 0); None for a codec name is the empty string, as in the source      *)
(* ("codec or None").  Text fields of the form (format, fps) are sequences *)
(* of one-character strings so that strip() and float() are computed.      *)
(***************************************************************************)
EXTENDS Integers, Sequences, FiniteSets, TLC

None == 0 - 1

\* ------------------------------------------------------------------------
\* Text helpers: str.strip() and float(str)
\* ------------------------------------------------------------------------
Digits == {"0", "1", "2", "3", "4", "5", "6", "7", "8", "9"}

RECURSIVE LStrip(_)
LStrip(s) == IF s # <<>> /\ Head(s) = " " THEN LStrip(Tail(s)) ELSE s

RECURSIVE RStrip(_)
RStrip(s) ==
    IF s # <<>> /\ s[Len(s)] = " " THEN RStrip(SubSeq(s, 1, Len(s) - 1)) ELSE s

Strip(s) == RStrip(LStrip(s))

\* float(s) succeeds: optional sign, digits with at most one point, at least
\* one digit (the decimal forms over the alphabet of the model).
IsFloat(s) ==
    LET t == Strip(s)
        body == IF t # <<>> /\ Head(t) \in {"-", "+"} THEN Tail(t) ELSE t
    IN  /\ \A i \in 1..Len(body) : body[i] \in Digits \cup {"."}
        /\ Cardinality({i \in 1..Len(body) : body[i] = "."}) <= 1
        /\ \E i \in 1..Len(body) : body[i] \in Digits

\* ------------------------------------------------------------------------
\* Formats and command tokens
\* ------------------------------------------------------------------------
MP4  == <<"m", "p", "4">>
MOV  == <<"m", "o", "v">>
MKV  == <<"m", "k", "v">>
WEBM == <<"w", "e", "b", "m">>
GIF  == <<"g", "i", "f">>
AVI  == <<"a", "v", "i">>

\* A token of the argument vector: s is the literal text; n carries the
\* number of a "%.3f" token (milliseconds), x the text spliced into a
\* filter or the characters of a path token.
Tok(s)      == [s |-> s, n |-> 0, x |-> <<>>]
SecTok(ms)  == [s |-> "%.3f", n |-> ms, x |-> <<>>]
FpsTok(fps) == [s |-> "fps=", n |-> 0, x |-> fps]
GifTok(fps) == [s |-> "fps=,scale=640:-1:flags=lanczos", n |-> 0, x |-> fps]
PathTok(p)  == [s |-> "path", n |-> 0, x |-> p]

HasTok(cmd, s) == \E i \in 1..Len(cmd) : cmd[i].s = s
HasPair(cmd, s1, s2) ==
    \E i \in 1..(Len(cmd) - 1) : cmd[i].s = s1 /\ cmd[i + 1].s = s2
ArgOf(cmd, s) ==
    LET i == CHOOSE j \in 1..(Len(cmd) - 1) : cmd[j].s = s IN cmd[i + 1]

\* ------------------------------------------------------------------------
\* State
\* ------------------------------------------------------------------------
VARIABLES
    fs,             \* the files on disk: path -> [isfile, codec, duration]
    ffmpeg_ok,      \* the ffmpeg executable is on PATH
    encoders,       \* App.encoders, probed once at start-up
    decoders,       \* App.decoders, probed once at start-up
    planIn,         \* the arguments of a build_command call
    planOut,        \* its result
    total_duration, \* App.total_duration
    progress,       \* App.progress["value"], in tenths of a percent
    fed,            \* number of lines given to the progress tracker
    ui,             \* the Tk variables of the form
    input_list,     \* App.input_list, the batch list
    runs,           \* the worker threads started by App._run, in order
    afterq,         \* callbacks posted with after(0, ...), oldest first
    msgs,           \* the message boxes shown, in order
    log,            \* the lines appended to the log widget, in order
    clicks,         \* how many times the user presses Run
    engine_lines,   \* how many lines an ffmpeg process prints at most
    preview_time,         \* App.preview_time, the preview slider
    preview_job,          \* App.preview_job, the timer last created
    timers,               \* the after() timers Tk holds for the preview
    preview_image,        \* the image the preview label shows
    preview_cache,        \* App.preview_cache: key -> image
    preview_cache_order,  \* App.preview_cache_order
    extractions,          \* the preview worker threads that are running
    completions,          \* posted _cache_preview_image callbacks
    tmpfiles,             \* the temporary png files: name -> content
    issued,               \* number of preview requests scheduled so far
    inserted              \* the keys put into the cache, in order

envVars      == <<fs, ffmpeg_ok, encoders, decoders>>
planVars     == <<planIn, planOut>>
progressVars == <<total_duration, progress, fed>>
batchVars    ==
    <<ui, input_list, runs, afterq, msgs, log, clicks, engine_lines>>
cacheVars    == <<preview_image, preview_cache, preview_cache_order, inserted>>
previewVars  ==
    <<preview_time, preview_job, timers, extractions, completions, tmpfiles,
      issued>>

\* os.path.isfile and the two ffprobe queries, answered by the disk
isfile(path) == path \in DOMAIN fs /\ fs[path].isfile
_get_video_codec(path) == IF path \in DOMAIN fs THEN fs[path].codec ELSE ""
_get_duration_seconds(path) ==
    IF path \in DOMAIN fs THEN fs[path].duration ELSE None

vars == <<envVars, planVars, progressVars, batchVars, cacheVars, previewVars>>

\* ------------------------------------------------------------------------
\* Command planner
\* ------------------------------------------------------------------------
\* the first candidate of the list that is in the set, "" when there is none
RECURSIVE FirstIn(_, _)
FirstIn(cands, set) ==
    IF cands = <<>> THEN ""
    ELSE IF Head(cands) \in set THEN Head(cands)
    ELSE FirstIn(Tail(cands), set)

VideoPrefsH264 ==
    <<"libx264", "libopenh264", "h264_v4l2m2m", "h264_vaapi", "h264_nvenc",
      "mpeg4">>
VideoPrefsWebm == <<"libvpx-vp9", "libvpx", "vp9", "vp8">>
AudioPrefsAac  == <<"aac", "libfdk_aac">>
AudioPrefsWebm == <<"libopus", "libvorbis", "opus", "vorbis">>

\* _pick_video_encoder trying mpeg4 before the h264 encoders
_pick_video_encoder_Mpeg4First(out_fmt, encs) ==
    IF out_fmt \in {MP4, MOV, MKV}
           /\ FirstIn(<<"mpeg4">> \o VideoPrefsH264, encs) # ""
    THEN FirstIn(<<"mpeg4">> \o VideoPrefsH264, encs)
    ELSE IF out_fmt = WEBM /\ FirstIn(VideoPrefsWebm, encs) # ""
    THEN FirstIn(VideoPrefsWebm, encs)
    ELSE IF out_fmt = GIF THEN "gif"
    ELSE ""

_pick_video_encoder(out_fmt, encs) ==
    IF out_fmt \in {MP4, MOV, MKV} /\ FirstIn(VideoPrefsH264, encs) # ""
    THEN FirstIn(VideoPrefsH264, encs)
    ELSE IF out_fmt = WEBM /\ FirstIn(VideoPrefsWebm, encs) # ""
    THEN FirstIn(VideoPrefsWebm, encs)
    ELSE IF out_fmt = GIF THEN "gif"
    ELSE ""

_pick_audio_encoder(out_fmt, encs) ==
    IF out_fmt \in {MP4, MOV, MKV} /\ FirstIn(AudioPrefsAac, encs) # ""
    THEN FirstIn(AudioPrefsAac, encs)
    ELSE IF out_fmt = WEBM /\ FirstIn(AudioPrefsWebm, encs) # ""
    THEN FirstIn(AudioPrefsWebm, encs)
    ELSE ""

\* The result of a build_command call: err is "" and cmd the argument vector,
\* or err is the ValueError raised (codec: the codec its message names).
\* probed tells whether the call reached the ffprobe codec query.
PlanFail(msg, probed) ==
    [err |-> msg, codec |-> "", cmd |-> <<>>, probed |-> probed]
PlanOk(cmd) == [err |-> "", codec |-> "", cmd |-> cmd, probed |-> TRUE]

ErrNoInput   == "Input file does not exist."
ErrNoFormat  == "Output format is required."
ErrNoStart   == "Trim start time is required when Trim is enabled."
ErrNoFps     == "Target FPS is required when FPS change is enabled."
ErrBadFps    == "Target FPS must be a number."
ErrNoDecoder == "Your FFmpeg build cannot decode the codec."

\* line 268: the end bound is emitted
emits_to(start, end) == end # None /\ end > start

\* fps_error without the float() check
fps_error_EmptyOnly(fps) == IF fps = <<>> THEN ErrNoFps ELSE ""

\* lines 275-280: the checks of the fps text, "" when it passes
fps_error(fps) ==
    IF fps = <<>> THEN ErrNoFps
    ELSE IF ~IsFloat(fps) THEN ErrBadFps
    ELSE ""

\* needs_decode without the gif case
needs_decode_NoGif(filters, trim_enabled, out_fmt) ==
    filters # <<>> \/ trim_enabled

\* line 284
needs_decode(filters, trim_enabled, out_fmt) ==
    filters # <<>> \/ trim_enabled \/ out_fmt = GIF

\* copies_streams without the trim test
copies_streams_IgnoresTrim(filters, trim_enabled, out_fmt) ==
    filters = <<>> /\ out_fmt \in {MP4, MOV, MKV}

\* line 295: the stream copy path
copies_streams(filters, trim_enabled, out_fmt) ==
    filters = <<>> /\ ~trim_enabled /\ out_fmt \in {MP4, MOV, MKV}

build_command(values, in_path, out_path, encs, decs) ==
    LET out_fmt      == Strip(values.format)
        fps          == Strip(values.fps)
        trim_enabled == values.trim_enabled
        fps_enabled  == values.fps_enabled
        start        == values.trim_start
        end          == values.trim_end
        cmd0 == <<Tok("ffmpeg"), Tok("-y")>>
        cmd1 ==
            IF trim_enabled
            THEN cmd0 \o <<Tok("-ss"), SecTok(start), Tok("-i"), PathTok(in_path)>>
                      \o (IF emits_to(start, end)
                          THEN <<Tok("-to"), SecTok(end)>> ELSE <<>>)
            ELSE cmd0 \o <<Tok("-i"), PathTok(in_path)>>
        filters == IF fps_enabled THEN <<FpsTok(fps)>> ELSE <<>>
        codec == _get_video_codec(in_path)
        decode == needs_decode(filters, trim_enabled, out_fmt)
        gif_fps == IF fps_enabled THEN fps ELSE <<"1", "0">>
        v_encoder == _pick_video_encoder(out_fmt, encs)
        a_encoder == _pick_audio_encoder(out_fmt, encs)
        cmd2 ==
            IF out_fmt = GIF
            THEN cmd1 \o <<Tok("-vf"), GifTok(gif_fps), Tok("-an")>>
            ELSE (IF copies_streams(filters, trim_enabled, out_fmt)
                  THEN cmd1 \o <<Tok("-c"), Tok("copy")>>
                  ELSE cmd1
                       \o (IF filters # <<>>
                           THEN <<Tok("-filter:v"), filters[1]>> ELSE <<>>)
                       \o (IF v_encoder # ""
                           THEN <<Tok("-c:v"), Tok(v_encoder)>> ELSE <<>>)
                       \o (IF a_encoder # ""
                           THEN <<Tok("-c:a"), Tok(a_encoder)>> ELSE <<>>))
                 \o (IF out_fmt \in {MP4, MOV}
                     THEN <<Tok("-movflags"), Tok("+faststart")>> ELSE <<>>)
    IN  IF ~isfile(in_path) THEN PlanFail(ErrNoInput, FALSE)
        ELSE IF out_fmt = <<>> THEN PlanFail(ErrNoFormat, FALSE)
        ELSE IF trim_enabled /\ start = None THEN PlanFail(ErrNoStart, FALSE)
        ELSE IF fps_enabled /\ fps_error(fps) # ""
        THEN PlanFail(fps_error(fps), FALSE)
        ELSE IF codec # "" /\ decode /\ codec \notin decs
        THEN [err |-> ErrNoDecoder, codec |-> codec, cmd |-> <<>>,
              probed |-> TRUE]
        ELSE PlanOk(cmd2 \o <<PathTok(out_path)>>)

\* ------------------------------------------------------------------------
\* Progress tracker
\* ------------------------------------------------------------------------
\* A time token is the sequence of its ":"-separated parts; a part is what
\* float() makes of it: ok and the value times 1000, or not ok (ValueError).
\* The empty token is <<>>.
Part(v)  == [ok |-> TRUE, v |-> v * 1000]
BadPart  == [ok |-> FALSE, v |-> 0]

\* the result of a call that may raise
Raised      == [raised |-> TRUE, val |-> None]
Returned(v) == [raised |-> FALSE, val |-> v]

_parse_time_to_seconds(value) ==
    IF value = <<>> THEN Returned(None)
    ELSE IF Len(value) = 3
    THEN (IF value[1].ok /\ value[2].ok /\ value[3].ok
          THEN Returned(value[1].v * 3600 + value[2].v * 60 + value[3].v)
          ELSE Raised)
    ELSE IF Len(value) = 2
    THEN (IF value[1].ok /\ value[2].ok
          THEN Returned(0 * 3600 + value[1].v * 60 + value[2].v)
          ELSE Raised)
    ELSE (IF Len(value) = 1 /\ value[1].ok THEN Returned(value[1].v) ELSE Raised)

\* An output line, as far as the tracker reads it: whether it contains
\* "Duration:" and the token after it, whether it contains "time=" and the
\* token after it.
Line(hasDur, dur, hasTime, time) ==
    [hasDur |-> hasDur, dur |-> dur, hasTime |-> hasTime, time |-> time]
DurLine(tok)  == Line(TRUE, tok, FALSE, <<>>)
TimeLine(tok) == Line(FALSE, <<>>, TRUE, tok)
PlainLine     == Line(FALSE, <<>>, FALSE, <<>>)

Max(a, b) == IF a >= b THEN a ELSE b
Min(a, b) == IF a <= b THEN a ELSE b

\* max(0, min(100, current / total * 100)), in tenths of a percent
Percent(current, total) == Max(0, Min(1000, (current * 1000) \div total))

\* total_duration after the "Duration:" half of _set_progress_from_line
DurationAfter(line) ==
    IF line.hasDur
    THEN (LET r == _parse_time_to_seconds(line.dur)
          IN  IF r.raised THEN None ELSE r.val)
    ELSE total_duration

\* progress value after the "time=" half, td being the total duration then
ProgressAfter(line, td) ==
    IF line.hasTime /\ td # None /\ td # 0
    THEN (LET r == _parse_time_to_seconds(line.time)
          IN  IF r.raised \/ r.val = None THEN progress
              ELSE Percent(r.val, td))
    ELSE progress

_set_progress_from_line(line) ==
    /\ total_duration' = DurationAfter(line)
    /\ progress' = ProgressAfter(line, DurationAfter(line))

\* ------------------------------------------------------------------------
\* Batch orchestrator
\* ------------------------------------------------------------------------
Eps == 10

LastIndexOf(s, ch) ==
    LET hits == {i \in 1..Len(s) : s[i] = ch}
    IN  IF hits = {} THEN 0 ELSE CHOOSE i \in hits : \A j \in hits : j <= i

\* os.path.basename, os.path.splitext(...)[0], str.endswith, os.path.join
basename(p) == SubSeq(p, LastIndexOf(p, "/") + 1, Len(p))
splitext_root(name) ==
    LET d == LastIndexOf(name, ".")
    IN  IF d > 1 /\ \E i \in 1..(d - 1) : name[i] # "."
        THEN SubSeq(name, 1, d - 1) ELSE name
endswith(s, suffix) ==
    /\ Len(suffix) <= Len(s)
    /\ SubSeq(s, Len(s) - Len(suffix) + 1, Len(s)) = suffix
join(a, b) ==
    IF b # <<>> /\ Head(b) = "/" THEN b
    ELSE IF a = <<>> \/ a[Len(a)] = "/" THEN a \o b
    ELSE a \o <<"/">> \o b

\* the directories on disk
Dirs == {<<"/", "a">>, <<"/", "b">>, <<"/", "o">>}
isdir(d) == d \in Dirs

ErrNoOutDir  == "Choose an output folder."
ErrBadOutDir == "Output folder does not exist."
ErrNoOutName == "Output filename is required."
ErrTrimStart == "Trim start must be within the video duration."
ErrFfmpeg    == "FFmpeg finished with errors. Check the log."
ErrNoChoice  == "Choose an input file."
MsgDone      == "All jobs finished."

\* App._build_output_path: [err, path]
_build_output_path(in_path, values) ==
    LET out_dir  == Strip(values.output_dir)
        out_name == Strip(values.output_name)
        out_fmt  == Strip(values.format)
        named == IF Len(input_list) > 1 /\ values.keep_names
                 THEN splitext_root(basename(in_path)) ELSE out_name
        full  == IF endswith(named, <<".">> \o out_fmt) THEN named
                 ELSE named \o <<".">> \o out_fmt
    IN  IF out_dir = <<>> THEN [err |-> ErrNoOutDir, path |-> <<>>]
        ELSE IF ~isdir(out_dir) THEN [err |-> ErrBadOutDir, path |-> <<>>]
        ELSE IF named = <<>> THEN [err |-> ErrNoOutName, path |-> <<>>]
        ELSE [err |-> "", path |-> join(out_dir, full)]

\* "if duration": an absent duration and a duration of 0 are both falsy
Truthy(duration) == duration # None /\ duration # 0

\* the trim end the worker stores in values["trim_end"] (lines 906-909)
SanitizedEnd(start, end, duration) ==
    LET end1 == IF Truthy(duration) /\ end >= duration - Eps THEN None ELSE end
    IN  IF end1 # None /\ end1 <= start + Eps THEN None ELSE end1

\* One pass of the worker's try block (lines 899-914) for in_path, values
\* being the dictionary as the previous pass left it.  The result names the
\* ValueError raised ("" for none), the planned command, the dictionary
\* afterwards and the probes (ffprobe subprocesses) that were run.
WorkerPlan(values, in_path) ==
    LET start    == ui.trim_start_sec
        end      == ui.trim_end_sec
        duration == _get_duration_seconds(in_path)
        trimmed  == IF values.trim_enabled
                    THEN [values EXCEPT
                            !.trim_start = start,
                            !.trim_end = SanitizedEnd(start, end, duration)]
                    ELSE values
        durProbe == IF values.trim_enabled THEN {"duration"} ELSE {}
        out      == _build_output_path(in_path, trimmed)
        plan     == build_command(trimmed, in_path, out.path, encoders, decoders)
    IN  IF values.trim_enabled /\ Truthy(duration) /\ start >= duration
        THEN [err |-> ErrTrimStart, codec |-> "", cmd |-> <<>>,
              values |-> values, probes |-> durProbe, out_path |-> <<>>]
        ELSE IF out.err # ""
        THEN [err |-> out.err, codec |-> "", cmd |-> <<>>,
              values |-> trimmed, probes |-> durProbe, out_path |-> <<>>]
        ELSE [err |-> plan.err, codec |-> plan.codec, cmd |-> plan.cmd,
              values |-> trimmed,
              probes |-> durProbe \cup (IF plan.probed THEN {"codec"} ELSE {}),
              out_path |-> out.path]

\* ------------------------------------------------------------------------
\* Preview generator and its cache
\* ------------------------------------------------------------------------
CacheCapacity == 20
DebounceMs    == 200

\* an image is the frame of a file at a time; NoImage is the blank label
\* and the content of a temporary file that holds no usable image
Image(path, t) == [path |-> path, t |-> t]
NoImage == Image(<<>>, None)

\* a timer: the request it serves and the time left until it fires;
\* App.preview_job keeps the timer as after() returned it, or None
Job(req, left) == [req |-> req, left |-> left]
NoJob == Job(0, None)

\* key = (path, int(t * 2))
Key(path, t) == <<path, (t * 2) \div 1000>>

\* _cache_preview_image with pop() in place of pop(0)
_cache_preview_image_PopLast(key, path) ==
    LET img    == tmpfiles[path]
        cached == [k \in (DOMAIN preview_cache) \cup {key} |->
                      IF k = key THEN img ELSE preview_cache[k]]
        order  == Append(preview_cache_order, key)
        old    == order[Len(order)]
    IN  /\ IF img = NoImage
           THEN UNCHANGED cacheVars
           ELSE /\ IF Len(order) > CacheCapacity
                   THEN /\ preview_cache_order' = SubSeq(order, 1, Len(order) - 1)
                        /\ preview_cache' =
                               [k \in (DOMAIN cached) \ {old} |-> cached[k]]
                   ELSE /\ preview_cache_order' = order
                        /\ preview_cache' = cached
                /\ preview_image' = img
                /\ inserted' = Append(inserted, key)
        /\ tmpfiles' = [f \in (DOMAIN tmpfiles) \ {path} |-> tmpfiles[f]]

\* _cache_preview_image with the removal at the end of the try block
\* instead of in a finally clause
_cache_preview_image_NoFinally(key, path) ==
    LET img    == tmpfiles[path]
        cached == [k \in (DOMAIN preview_cache) \cup {key} |->
                      IF k = key THEN img ELSE preview_cache[k]]
        order  == Append(preview_cache_order, key)
        old    == Head(order)
    IN  IF img = NoImage
        THEN UNCHANGED <<cacheVars, tmpfiles>>
        ELSE /\ IF Len(order) > CacheCapacity
                THEN /\ preview_cache_order' = Tail(order)
                     /\ preview_cache' =
                            [k \in (DOMAIN cached) \ {old} |-> cached[k]]
                ELSE /\ preview_cache_order' = order
                     /\ preview_cache' = cached
             /\ preview_image' = img
             /\ inserted' = Append(inserted, key)
             /\ tmpfiles' = [f \in (DOMAIN tmpfiles) \ {path} |-> tmpfiles[f]]

\* App._cache_preview_image(key, path): tk.PhotoImage(file=path) raises
\* when the file holds no image; the finally clause removes the file
_cache_preview_image(key, path) ==
    LET img    == tmpfiles[path]
        cached == [k \in (DOMAIN preview_cache) \cup {key} |->
                      IF k = key THEN img ELSE preview_cache[k]]
        order  == Append(preview_cache_order, key)
        old    == Head(order)
    IN  /\ IF img = NoImage
           THEN UNCHANGED cacheVars
           ELSE /\ IF Len(order) > CacheCapacity
                   THEN /\ preview_cache_order' = Tail(order)
                        /\ preview_cache' =
                               [k \in (DOMAIN cached) \ {old} |-> cached[k]]
                   ELSE /\ preview_cache_order' = order
                        /\ preview_cache' = cached
                /\ preview_image' = img
                /\ inserted' = Append(inserted, key)
        /\ tmpfiles' = [f \in (DOMAIN tmpfiles) \ {path} |-> tmpfiles[f]]

\* ------------------------------------------------------------------------
\* Inputs of the model
\* ------------------------------------------------------------------------
\* paths are character sequences: /a/x.avi, /a/y.mkv, /b/x.mp4 and /o
FileA  == <<"/", "a", "/", "x", ".", "a", "v", "i">>
FileB  == <<"/", "a", "/", "y", ".", "m", "k", "v">>
FileC  == <<"/", "b", "/", "x", ".", "m", "p", "4">>
OutDir == <<"/", "o">>

Codecs      == {"", "h264", "vp9"}
DecoderSets == {{}, {"h264"}}
EncoderSets == SUBSET {"libx264", "mpeg4", "libvpx", "aac"}
Formats     == {MP4, MKV, MOV, WEBM, GIF, AVI, <<>>}
FpsTexts    == {<<>>, <<"f", "p", "s">>, <<"3", "0">>, <<" ", "2", "4", " ">>}
TrimStarts  == {None, 0, 1000}
TrimEnds    == {None, 0, 1000, 2000}

FileInfo(f, c, d) == [isfile |-> f, codec |-> c, duration |-> d]

\* the fields of the values dictionary that build_command reads
PlanValues(fmt, fps, fe, te, st, en) ==
    [format |-> fmt, fps |-> fps, fps_enabled |-> fe, trim_enabled |-> te,
     trim_start |-> st, trim_end |-> en]

\* ------------------------------------------------------------------------
\* The planner called directly: build_command on every request of the sets
\* ------------------------------------------------------------------------
NoPlan(state) == [state |-> state, res |-> PlanFail("", FALSE)]

PlanIdle     == planIn = <<>> /\ planOut = NoPlan("idle")
ProgressIdle == total_duration = None /\ progress = 0 /\ fed = 0
BatchIdle ==
    /\ ui = <<>> /\ input_list = <<>> /\ runs = <<>>
    /\ afterq = <<>> /\ msgs = <<>> /\ log = <<>> /\ clicks = 0
    /\ engine_lines = 0
PreviewIdle ==
    /\ preview_time = 0 /\ preview_job = NoJob /\ timers = {}
    /\ preview_image = NoImage
    /\ preview_cache = <<>> /\ preview_cache_order = <<>>
    /\ extractions = {} /\ completions = <<>> /\ tmpfiles = <<>>
    /\ issued = 0 /\ inserted = <<>>

PlanInit ==
    /\ \E f \in BOOLEAN, c \in Codecs :
           fs = (FileA :> FileInfo(f, c, None))
    /\ ffmpeg_ok = TRUE
    /\ encoders \in EncoderSets
    /\ decoders \in DecoderSets
    /\ ProgressIdle
    /\ BatchIdle
    /\ PreviewIdle
    /\ \E fmt \in Formats, fe \in BOOLEAN, te \in BOOLEAN :
       \E fps \in (IF fe THEN FpsTexts ELSE {<<>>, <<"3", "0">>}),
          st \in (IF te THEN TrimStarts ELSE {None}),
          en \in (IF te THEN TrimEnds ELSE {None}) :
           planIn = [values   |-> PlanValues(fmt, fps, fe, te, st, en),
                     in_path  |-> FileA,
                     out_path |-> OutDir \o <<"/", "o", "u", "t">>]
    /\ planOut = NoPlan("ready")

PlanCall ==
    /\ planOut.state = "ready"
    /\ planOut' = [state |-> "done",
                   res   |-> build_command(planIn.values, planIn.in_path,
                                           planIn.out_path, encoders,
                                           decoders)]
    /\ UNCHANGED <<cacheVars, previewVars, envVars, planIn, progressVars, batchVars>>


\* SpecEncoders: requests that plan, over the encoder sets of many builds
EncoderNames ==
    {"libx264", "libopenh264", "h264_nvenc", "mpeg4", "libvpx-vp9", "libvpx",
     "vp8", "aac", "libfdk_aac", "libopus", "vorbis"}

EncInit ==
    /\ fs = (FileA :> FileInfo(TRUE, "h264", None))
    /\ ffmpeg_ok = TRUE
    /\ encoders \in SUBSET EncoderNames
    /\ decoders = {"h264"}
    /\ ProgressIdle
    /\ BatchIdle
    /\ PreviewIdle
    /\ \E fmt \in Formats \ {<<>>}, fe \in BOOLEAN, te \in BOOLEAN :
           planIn = [values   |-> PlanValues(fmt, <<"3", "0">>, fe, te,
                                             IF te THEN 0 ELSE None,
                                             IF te THEN 2000 ELSE None),
                     in_path  |-> FileA,
                     out_path |-> OutDir \o <<"/", "o", "u", "t">>]
    /\ planOut = NoPlan("ready")

SpecEncoders == EncInit /\ [][PlanCall]_vars

\* ------------------------------------------------------------------------
\* SpecProgress: one job's output lines given to the progress tracker
\* ------------------------------------------------------------------------
MaxFeed == 4

Hms(h, m, sec) == <<Part(h), Part(m), Part(sec)>>

TimeTokens ==
    {Hms(0, m, sec) : m \in {0, 1}, sec \in {0, 40, 50}}
        \cup {<<Part(1), Part(40)>>, <<Part(50)>>, <<>>, <<BadPart>>,
              <<Part(0), BadPart, Part(0)>>,
              <<Part(0), Part(0), Part(0), Part(0)>>}

Lines ==
    {DurLine(t) : t \in TimeTokens} \cup {TimeLine(t) : t \in TimeTokens}
        \cup {Line(TRUE, d, TRUE, t) : d \in TimeTokens, t \in TimeTokens}
        \cup {PlainLine}

\* total_duration is what the last file selection left (App._load_duration)
ProgressInit ==
    /\ fs = <<>> /\ ffmpeg_ok = TRUE /\ encoders = {} /\ decoders = {}
    /\ PlanIdle
    /\ BatchIdle
    /\ PreviewIdle
    /\ total_duration \in {None, 0, 100000}
    /\ progress = 0
    /\ fed = 0

FeedLine ==
    /\ fed < MaxFeed
    /\ \E line \in Lines : _set_progress_from_line(line)
    /\ fed' = fed + 1
    /\ UNCHANGED <<cacheVars, previewVars, envVars, planVars, batchVars>>

SpecProgress == ProgressInit /\ [][FeedLine]_vars

\* C5: within one job the reported percentage never decreases from one
\* line to the next, whatever the lines are.
C5_PercentNeverDecreases == [][progress' >= progress]_vars

\* ------------------------------------------------------------------------
\* Spec: the form, the batch list, Run and the worker threads it starts
\* ------------------------------------------------------------------------
MaxRuns  == 2
MaxBatch == 3
MaxLines == 1

Form(fmt, fe, fps, te, st, en, keep) ==
    [input_path |-> <<>>, output_dir |-> OutDir,
     output_name |-> <<"o", "u", "t">>, format |-> fmt,
     fps_enabled |-> fe, fps |-> fps, trim_enabled |-> te,
     trim_start_sec |-> st, trim_end_sec |-> en, keep_names |-> keep]

\* the dictionary App._run builds from the form (lines 876-887)
ValuesOf(form) ==
    [input_path |-> form.input_path, output_dir |-> form.output_dir,
     output_name |-> form.output_name, format |-> form.format,
     fps |-> form.fps, trim_enabled |-> form.trim_enabled,
     trim_start |-> None, trim_end |-> None,
     fps_enabled |-> form.fps_enabled, keep_names |-> form.keep_names]

\* the slider positions: the form keeps start <= end (App._sync_trim_labels)
TrimPairs == {<<0, 0>>, <<1000, 1005>>, <<1000, 2000>>, <<1000, 4995>>}

Disk ==
    (FileA :> FileInfo(TRUE, "h264", 5000))
        @@ (FileB :> FileInfo(TRUE, "vp9", 0))
        @@ (FileC :> FileInfo(FALSE, "", None))

\* sequences of distinct files, at most n long
RECURSIVE Batches(_)
Batches(n) ==
    IF n = 0 THEN {<<>>}
    ELSE Batches(n - 1) \cup
         {Append(b, f) : b \in {c \in Batches(n - 1) : Len(c) = n - 1},
                         f \in DOMAIN Disk}

Distinct(b) == \A i, j \in 1..Len(b) : i # j => b[i] # b[j]

BatchLines ==
    {DurLine(Hms(0, 1, 40)), TimeLine(Hms(0, 0, 50))}

Attempt(plan, launched) ==
    [err |-> plan.err, codec |-> plan.codec, cmd |-> plan.cmd,
     probes |-> plan.probes, out_path |-> plan.out_path,
     launched |-> launched, code |-> None]

\* job and seq say where in the worker's program the callback was posted:
\* while working on which input, and as which callback of that input
Callback(fn, run, kind, text, line) ==
    [fn |-> fn, run |-> run, kind |-> kind, text |-> text, line |-> line,
     job |-> 0, seq |-> 0]
Posted(cb, job, seq) == [cb EXCEPT !.job = job, !.seq = seq]
UiMessage(run, kind, text) == Callback("_ui_message", run, kind, text, PlainLine)
SetProgress(run)           == Callback("_set_progress", run, "", "", PlainLine)
AppendLog(run, text, line) == Callback("_append_log", run, "", text, line)

\* the forms of the batch runs: remux or gif, any of the fps texts, any of
\* the slider positions
Forms ==
    {Form(fmt, fe, fps, te, tp[1], tp[2], keep) :
        fmt \in {MP4, GIF}, fe \in BOOLEAN, te \in BOOLEAN, keep \in BOOLEAN,
        fps \in {<<"3", "0">>, <<"f", "p", "s">>, <<>>}, tp \in TrimPairs}

\* the form as it is when nothing but the batch list was filled in
PlainForm == Form(MP4, FALSE, <<>>, FALSE, 0, 0, TRUE)

\* The start of a session: the capability sets are those of the ffmpeg on
\* PATH, empty when there is none (_get_ffmpeg_encoders returns set());
\* total_duration is what the last file selection left.
BatchStart(forms, lists, n, m) ==
    /\ fs = Disk
    /\ ffmpeg_ok \in BOOLEAN
    /\ encoders = (IF ffmpeg_ok THEN {"libx264", "aac"} ELSE {})
    /\ decoders \in (IF ffmpeg_ok THEN {{}, {"h264"}, {"h264", "vp9"}}
                     ELSE {{}})
    /\ PlanIdle
    /\ total_duration \in {None, 5000}
    /\ progress = 0
    /\ fed = 0
    /\ ui \in forms
    /\ input_list \in {b \in lists : Distinct(b)}
    /\ runs = <<>>
    /\ afterq = <<>>
    /\ msgs = <<>>
    /\ log = <<>>
    /\ clicks = n
    /\ engine_lines = m
    /\ PreviewIdle

BatchInit == BatchStart(Forms, Batches(MaxBatch), 1, MaxLines)

\* App._run, the handler of the Run button
Run ==
    /\ Len(runs) + Cardinality({k \in 1..Len(msgs) : msgs[k].run = 0}) < clicks
    /\ LET values == ValuesOf(ui)
           single == Strip(values.input_path)
       IN  IF input_list # <<>> \/ single # <<>>
           THEN /\ runs' = Append(runs,
                     [inputs |-> IF input_list # <<>> THEN input_list
                                 ELSE <<single>>,
                      values |-> values, i |-> 1, pc |-> "plan",
                      nlines |-> 0, res |-> <<>>])
                /\ msgs' = msgs
           ELSE /\ msgs' = Append(msgs, UiMessage(0, "error", ErrNoChoice))
                /\ runs' = runs
    /\ UNCHANGED <<cacheVars, previewVars, envVars, planVars, progressVars, ui, input_list, afterq, log,
                   clicks, engine_lines>>

\* the worker of run r plans its next input and, if planning succeeds,
\* posts the progress reset and enters run_ffmpeg: the command echo, then
\* Popen, which raises when the executable is missing
WorkerStart(r) ==
    /\ runs[r].pc = "plan"
    /\ LET me   == runs[r]
           plan == WorkerPlan(me.values, me.inputs[me.i])
       IN  IF plan.err # ""
           THEN /\ afterq' = Append(afterq,
                     Posted(UiMessage(r, "error", plan.err), me.i, 0))
                /\ runs' = [runs EXCEPT ![r] =
                     [me EXCEPT !.pc = "done", !.values = plan.values,
                                !.res = Append(me.res, Attempt(plan, FALSE))]]
           ELSE /\ afterq' = afterq \o
                     <<Posted(SetProgress(r), me.i, 0),
                       Posted(AppendLog(r, "echo", PlainLine), me.i, 1)>>
                /\ runs' = [runs EXCEPT ![r] =
                     [me EXCEPT !.pc = IF ffmpeg_ok THEN "stream" ELSE "dead",
                                !.values = plan.values, !.nlines = 0,
                                !.res = Append(me.res, Attempt(plan, ffmpeg_ok))]]
    /\ UNCHANGED <<cacheVars, previewVars, envVars, planVars, progressVars, ui, input_list, msgs, log,
                   clicks, engine_lines>>

\* the engine of run r writes a line, which the worker passes to _queue_log
WorkerLine(r) ==
    /\ runs[r].pc = "stream"
    /\ runs[r].nlines < engine_lines
    /\ \E line \in BatchLines :
           afterq' = Append(afterq,
               Posted(AppendLog(r, "out", line), runs[r].i,
                      runs[r].nlines + 2))
    /\ runs' = [runs EXCEPT ![r].nlines = @ + 1]
    /\ UNCHANGED <<cacheVars, previewVars, envVars, planVars, progressVars, ui, input_list, msgs, log,
                   clicks, engine_lines>>

\* WorkerExit without the return after the error message (line 928)
WorkerExit_NoReturn(r) ==
    /\ runs[r].pc = "stream"
    /\ \E code \in {0, 1} :
       LET me   == runs[r]
           done == [me EXCEPT !.res[me.i].code = code]
           post == IF code # 0
                   THEN <<Posted(UiMessage(r, "error", ErrFfmpeg), me.i,
                                 me.nlines + 2)>>
                   ELSE <<>>
       IN  IF me.i < Len(me.inputs)
           THEN /\ afterq' = afterq \o post
                /\ runs' = [runs EXCEPT ![r] =
                     [done EXCEPT !.pc = "plan", !.i = me.i + 1]]
           ELSE /\ afterq' = afterq \o post
                     \o <<Posted(UiMessage(r, "info", MsgDone), me.i,
                                 me.nlines + 3)>>
                /\ runs' = [runs EXCEPT ![r] = [done EXCEPT !.pc = "done"]]
    /\ UNCHANGED <<cacheVars, previewVars, envVars, planVars, progressVars, ui, input_list, msgs, log,
                   clicks, engine_lines>>

\* the engine of run r exits; the worker goes on, or ends the batch
WorkerExit(r) ==
    /\ runs[r].pc = "stream"
    /\ \E code \in {0, 1} :
       LET me   == runs[r]
           done == [me EXCEPT !.res[me.i].code = code]
       IN  IF code # 0
           THEN /\ afterq' = Append(afterq,
                     Posted(UiMessage(r, "error", ErrFfmpeg), me.i,
                            me.nlines + 2))
                /\ runs' = [runs EXCEPT ![r] = [done EXCEPT !.pc = "done"]]
           ELSE IF me.i < Len(me.inputs)
           THEN /\ afterq' = afterq
                /\ runs' = [runs EXCEPT ![r] =
                     [done EXCEPT !.pc = "plan", !.i = me.i + 1]]
           ELSE /\ afterq' = Append(afterq,
                     Posted(UiMessage(r, "info", MsgDone), me.i,
                            me.nlines + 2))
                /\ runs' = [runs EXCEPT ![r] = [done EXCEPT !.pc = "done"]]
    /\ UNCHANGED <<cacheVars, previewVars, envVars, planVars, progressVars, ui, input_list, msgs, log,
                   clicks, engine_lines>>

\* Dispatch running the newest posted callback instead of the oldest
Dispatch_Newest ==
    /\ afterq # <<>>
    /\ LET cb == afterq[Len(afterq)]
       IN  /\ afterq' = SubSeq(afterq, 1, Len(afterq) - 1)
           /\ msgs' = IF cb.fn = "_ui_message" THEN Append(msgs, cb) ELSE msgs
           /\ log' = IF cb.fn = "_append_log" THEN Append(log, cb) ELSE log
           /\ IF cb.fn = "_append_log" THEN _set_progress_from_line(cb.line)
              ELSE IF cb.fn = "_set_progress"
              THEN progress' = 0 /\ total_duration' = total_duration
              ELSE UNCHANGED <<total_duration, progress>>
    /\ UNCHANGED <<cacheVars, previewVars, envVars, planVars, fed, ui,
                   input_list, runs, clicks, engine_lines>>

\* the Tk main loop runs the oldest posted callback
Dispatch ==
    /\ afterq # <<>>
    /\ LET cb == Head(afterq)
       IN  /\ afterq' = Tail(afterq)
           /\ msgs' = IF cb.fn = "_ui_message" THEN Append(msgs, cb) ELSE msgs
           /\ log' = IF cb.fn = "_append_log" THEN Append(log, cb) ELSE log
           /\ IF cb.fn = "_append_log" THEN _set_progress_from_line(cb.line)
              ELSE IF cb.fn = "_set_progress"
              THEN progress' = 0 /\ total_duration' = total_duration
              ELSE UNCHANGED <<total_duration, progress>>
    /\ UNCHANGED <<cacheVars, previewVars, envVars, planVars, fed, ui, input_list, runs, clicks,
                   engine_lines>>

BatchNext ==
    \/ Run
    \/ \E r \in 1..Len(runs) : WorkerStart(r)
    \/ \E r \in 1..Len(runs) : WorkerLine(r)
    \/ \E r \in 1..Len(runs) : WorkerExit(r)
    \/ Dispatch

\* Spec: the planner called on every request of the input sets, and the
\* batch runs of every form over every batch list
Init == PlanInit \/ BatchInit

Next == PlanCall \/ BatchNext

Spec == Init /\ [][Next]_vars

\* SpecRerun: the plain form and at most one file in the list, Run pressed
\* up to MaxRuns times
RerunInit == BatchStart({PlainForm}, Batches(1), MaxRuns, MaxLines)

SpecRerun == RerunInit /\ [][BatchNext]_vars

\* SpecLog: one press of Run, batches of up to two files, engines that
\* print up to MaxLogLines lines
MaxLogLines == 2

LogInit == BatchStart({PlainForm}, Batches(2), 1, MaxLogLines)

SpecLog == LogInit /\ [][BatchNext]_vars

\* ------------------------------------------------------------------------
\* Claims about the batch orchestrator
\* ------------------------------------------------------------------------
RunIds == 1..Len(runs)

\* the terminal messages of run r, posted or already shown
Terminal(r, kind) ==
    Cardinality({k \in 1..Len(afterq) :
                    /\ afterq[k].fn = "_ui_message"
                    /\ afterq[k].run = r /\ afterq[k].kind = kind})
        + Cardinality({k \in 1..Len(msgs) :
                          msgs[k].run = r /\ msgs[k].kind = kind})

\* the request failed validation, or its engine process exited non-zero
Failed(a) == a.err # "" \/ (a.code # None /\ a.code # 0)
Succeeded(a) == a.err = "" /\ a.launched /\ a.code = 0

\* C1: once a request of a batch fails validation or its engine exits
\* non-zero, the requests before it have all been run, the failure is
\* reported exactly once, and no later request is attempted or launched.
C1_StopsAtFirstFailure ==
    \A r \in RunIds :
        \A k \in 1..Len(runs[r].res) :
            Failed(runs[r].res[k]) =>
                /\ k = Len(runs[r].res)
                /\ runs[r].pc = "done"
                /\ \A j \in 1..(k - 1) : Succeeded(runs[r].res[j])
                /\ Terminal(r, "error") = 1
                /\ Terminal(r, "info") = 0
                /\ runs[r].res[k].err # "" => ~runs[r].res[k].launched

\* a batch of three: the first ran, the second failed validation
C1_Witness ==
    \E r \in RunIds :
        /\ Len(runs[r].inputs) = 3
        /\ Len(runs[r].res) = 2
        /\ Succeeded(runs[r].res[1])
        /\ runs[r].res[2].err # ""
        /\ runs[r].pc = "done"
        /\ afterq = <<>>

\* C2: the success message is posted only if every request was planned
\* without error and exited with code 0, and a batch run that has ended has
\* posted exactly one terminal message.
C2_OneTerminalMessage ==
    \A r \in RunIds :
        /\ Terminal(r, "info") > 0 =>
               /\ Len(runs[r].res) = Len(runs[r].inputs)
               /\ \A k \in 1..Len(runs[r].res) : Succeeded(runs[r].res[k])
        /\ Terminal(r, "info") + Terminal(r, "error") <= 1
        /\ runs[r].pc \in {"done", "dead"} =>
               Terminal(r, "info") + Terminal(r, "error") = 1

\* C3: at most one engine encode subprocess is running at any time,
\* however often Run is pressed.
C3_OneEngineAtATime ==
    Cardinality({r \in RunIds : runs[r].pc = "stream"}) <= 1

\* ------------------------------------------------------------------------
\* Claims about the command planner
\* ------------------------------------------------------------------------
Planned == planOut.state = "done"
PlainRemux(v) ==
    ~v.trim_enabled /\ ~v.fps_enabled /\ Strip(v.format) \in {MP4, MOV, MKV}

\* C7: a request with the input present, no trim, no fps change and format
\* mp4, mov or mkv is planned as a stream copy without -c:v, -c:a, -filter:v
\* or -vf, whatever the capability sets and the codec; every other planned
\* command has no "-c copy".
C7_StreamCopyIffPlainRemux ==
    Planned =>
        LET v == planIn.values
            r == planOut.res
        IN  /\ (isfile(planIn.in_path) /\ PlainRemux(v)) =>
                   /\ r.err = ""
                   /\ HasPair(r.cmd, "-c", "copy")
                   /\ \A t \in {"-c:v", "-c:a", "-filter:v", "-vf"} :
                          ~HasTok(r.cmd, t)
            /\ (r.err = "" /\ ~PlainRemux(v)) => ~HasPair(r.cmd, "-c", "copy")

\* a plain remux of a file whose codec no decoder handles
C7_Witness ==
    /\ Planned
    /\ PlainRemux(planIn.values)
    /\ _get_video_codec(planIn.in_path) = "h264"
    /\ decoders = {}
    /\ "libx264" \in encoders
    /\ HasPair(planOut.res.cmd, "-c", "copy")

\* the fps text is empty or not a number
BadFps(fps) == Strip(fps) = <<>> \/ ~IsFloat(fps)

Attempts == {<<r, k>> \in RunIds \X (1..MaxBatch) : k <= Len(runs[r].res)}

\* C8 as stated: an fps-enabled request with an empty or non-numeric fps
\* ends in a validation error and no subprocess, engine or probe, is run.
C8_NoSubprocessAtAll ==
    \A rk \in Attempts :
        LET a == runs[rk[1]].res[rk[2]]
        IN  (ui.fps_enabled /\ BadFps(ui.fps)) =>
                a.err # "" /\ ~a.launched /\ a.probes = {}

\* C8 as amended: such a request ends in a validation error, posted once;
\* neither the engine nor the codec probe is run, and the duration probe
\* is run exactly when trim is enabled.
C8_NoEngineNoCodecProbe ==
    \A rk \in Attempts :
        LET a == runs[rk[1]].res[rk[2]]
        IN  (ui.fps_enabled /\ BadFps(ui.fps)) =>
                /\ a.err # ""
                /\ ~a.launched
                /\ Terminal(rk[1], "error") = 1
                /\ "codec" \notin a.probes
                /\ "duration" \in a.probes <=> ui.trim_enabled

\* a non-numeric fps with trim enabled: the duration probe has run
C8_Witness ==
    \E rk \in Attempts :
        LET a == runs[rk[1]].res[rk[2]]
        IN  /\ ui.fps_enabled /\ ui.trim_enabled
            /\ a.err = ErrBadFps
            /\ a.probes = {"duration"}

\* C9: planning fails with the "cannot decode" error, naming the codec,
\* exactly when the earlier checks pass, the codec is known and not in
\* the decoder set, and fps, trim or gif asks for a full decode; and no
\* engine is launched for a request of a batch that fails so.
C9_CannotDecodeIff ==
    /\ Planned =>
           LET v == planIn.values
               r == planOut.res
               codec == _get_video_codec(planIn.in_path)
               earlier ==
                   /\ isfile(planIn.in_path)
                   /\ Strip(v.format) # <<>>
                   /\ v.trim_enabled => v.trim_start # None
                   /\ v.fps_enabled => ~BadFps(v.fps)
               full == v.fps_enabled \/ v.trim_enabled \/ Strip(v.format) = GIF
           IN  /\ r.err = ErrNoDecoder <=>
                      (earlier /\ codec # "" /\ codec \notin decoders /\ full)
               /\ r.err = ErrNoDecoder => r.codec = codec /\ r.cmd = <<>>
    /\ \A rk \in Attempts :
           LET a == runs[rk[1]].res[rk[2]]
           IN  a.err = ErrNoDecoder =>
                   /\ ~a.launched /\ a.code = None
                   /\ a.codec = _get_video_codec(runs[rk[1]].inputs[rk[2]])
                   /\ a.codec \notin decoders
                   /\ runs[rk[1]].pc = "done"

\* the second request of a batch fails on its codec after the first ran
C9_Witness ==
    \E r \in RunIds :
        /\ Len(runs[r].res) = 2
        /\ Succeeded(runs[r].res[1])
        /\ runs[r].res[2].err = ErrNoDecoder
        /\ runs[r].res[2].codec = "vp9"

\* C10: the planner emits -to exactly when trim end is present and greater
\* than trim start; a launched command carries -to only if trim end exceeds
\* trim start by more than 0.01s and, the duration being known, lies more
\* than 0.01s before it.
C10_EndBound ==
    /\ (Planned /\ planOut.res.err = "" /\ planIn.values.trim_enabled) =>
           (HasTok(planOut.res.cmd, "-to") <=>
                /\ planIn.values.trim_end # None
                /\ planIn.values.trim_end > planIn.values.trim_start)
    /\ \A rk \in Attempts :
           LET a == runs[rk[1]].res[rk[2]]
               duration == _get_duration_seconds(runs[rk[1]].inputs[rk[2]])
           IN  (a.launched /\ HasTok(a.cmd, "-to")) =>
                   /\ ui.trim_end_sec > ui.trim_start_sec + Eps
                   /\ duration # None => ui.trim_end_sec < duration - Eps

\* ------------------------------------------------------------------------
\* SpecCache: frames arriving for one key after another
\* ------------------------------------------------------------------------
MaxInserts   == 25
MaxReinserts == 2

Range(seq) == {seq[i] : i \in 1..Len(seq)}
Times(seq, x) == Cardinality({i \in 1..Len(seq) : seq[i] = x})

Completion(req, key, path) == [req |-> req, key |-> key, path |-> path]

CacheInit ==
    /\ fs = Disk /\ ffmpeg_ok = TRUE
    /\ encoders = {"libx264", "aac"} /\ decoders = {"h264"}
    /\ PlanIdle
    /\ ProgressIdle
    /\ ui = [PlainForm EXCEPT !.input_path = FileA]
    /\ input_list = <<>> /\ runs = <<>> /\ afterq = <<>>
    /\ msgs = <<>> /\ log = <<>> /\ clicks = 0 /\ engine_lines = 0
    /\ PreviewIdle

\* the keys asked for again: the first one ever cached and the oldest one
\* in the eviction order
AgainKeys ==
    IF inserted = <<>> THEN {}
    ELSE {inserted[1]} \cup (IF preview_cache_order = <<>> THEN {}
                             ELSE {Head(preview_cache_order)})

\* the worker of a preview request for time bucket b ends with a frame
\* (lines 768-776): b is the next bucket never asked for, or one asked for
\* before
FrameReady ==
    /\ completions = <<>>
    /\ Len(inserted) < MaxInserts
    /\ \E key \in AgainKeys \cup {<<FileA, Cardinality(Range(inserted))>>} :
           LET b   == key[2]
               tmp == Len(inserted) + 1
           IN  /\ key \in Range(inserted) =>
                      Len(inserted) - Cardinality(Range(inserted)) < MaxReinserts
               /\ tmpfiles' =
                      (tmp :> Image(FileA, b * 500 + Times(inserted, key)))
               /\ completions' = <<Completion(issued + 1, key, tmp)>>
               /\ issued' = issued + 1
    /\ UNCHANGED <<cacheVars, preview_time, preview_job, timers, extractions,
                   envVars, planVars, progressVars, batchVars>>

\* the Tk main loop runs the oldest posted _cache_preview_image callback
PreviewDispatch ==
    /\ completions # <<>>
    /\ _cache_preview_image(Head(completions).key, Head(completions).path)
    /\ completions' = Tail(completions)
    /\ UNCHANGED <<preview_time, preview_job, timers, extractions, issued,
                   envVars, planVars, progressVars, batchVars>>

\* the cache hit of App._generate_preview (lines 745-747), for the oldest
\* keys of the eviction order
CacheHit ==
    /\ completions = <<>>
    /\ \E key \in (DOMAIN preview_cache)
                      \cap Range(SubSeq(preview_cache_order, 1,
                                        Min(2, Len(preview_cache_order)))) :
           /\ preview_image # preview_cache[key]
           /\ preview_image' = preview_cache[key]
    /\ UNCHANGED <<preview_cache, preview_cache_order, inserted, previewVars,
                   envVars, planVars, progressVars, batchVars>>

CacheNext == FrameReady \/ PreviewDispatch \/ CacheHit

SpecCache == CacheInit /\ [][CacheNext]_vars

\* ------------------------------------------------------------------------
\* Claims about the preview cache
\* ------------------------------------------------------------------------
Cached == DOMAIN preview_cache
Last(seq) == seq[Len(seq)]
LatestInsertion(hist, k) ==
    CHOOSE i \in 1..Len(hist) :
        hist[i] = k /\ \A j \in (i + 1)..Len(hist) : hist[j] # k
Suffix(seq, n) == SubSeq(seq, Len(seq) - Min(n, Len(seq)) + 1, Len(seq))

\* an insertion that pushes the cache past its capacity removes the entry
\* inserted earliest among those present
EvictsOldest ==
    (inserted' # inserted /\ Cardinality(Cached \cup {Last(inserted')}) > CacheCapacity)
        => \E old \in Cached :
               /\ \A k \in Cached :
                      LatestInsertion(inserted, old) <= LatestInsertion(inserted, k)
               /\ Cached' = (Cached \cup {Last(inserted')}) \ {old}

\* a cache hit changes neither the cache nor the order of eviction
HitsLeaveOrder ==
    inserted' = inserted =>
        /\ preview_cache' = preview_cache
        /\ preview_cache_order' = preview_cache_order

\* C6: the cache never holds more than 20 entries; an insertion that pushes
\* it past 20 removes the entry inserted earliest among those present,
\* whatever cache hits there were; after n insertions of distinct keys the
\* cache holds exactly the last min(n, 20) of them.
C6_InsertionOrderEviction ==
    /\ [](Cardinality(Cached) <= CacheCapacity)
    /\ [](Cardinality(Range(inserted)) = Len(inserted) =>
              /\ Cached = Range(Suffix(inserted, CacheCapacity))
              /\ preview_cache_order = Suffix(inserted, CacheCapacity))
    /\ [][EvictsOldest /\ HitsLeaveOrder]_vars

\* 25 distinct keys were inserted and 20 are left
C6_Witness ==
    /\ Len(inserted) = 25
    /\ Cardinality(Range(inserted)) = 25
    /\ Cardinality(Cached) = 20
    /\ <<FileA, 4>> \notin Cached
    /\ <<FileA, 5>> \in Cached

\* ------------------------------------------------------------------------
\* SpecPreview: file selection, the preview slider and the extractions
\* ------------------------------------------------------------------------
MaxRequests == 3
TickMs      == 100

SliderTimes  == {0, 400, 600}
PreviewDisks == {Disk, [Disk EXCEPT ![FileB].codec = ""]}

Extraction(req, key, path, t) ==
    [req |-> req, key |-> key, path |-> path, t |-> t]

\* _schedule_preview without the after_cancel of lines 728-729
_schedule_preview_NoCancel(force) ==
    LET job == Job(issued + 1, IF force THEN 0 ELSE DebounceMs)
    IN  /\ timers' = timers \cup {job}
        /\ preview_job' = job
        /\ issued' = issued + 1

\* App._schedule_preview(force): the timer of preview_job, if any, is
\* cancelled and a new one is created
_schedule_preview(force) ==
    LET job  == Job(issued + 1, IF force THEN 0 ELSE DebounceMs)
        kept == IF preview_job # NoJob
                THEN {t \in timers : t.req # preview_job.req}
                ELSE timers
    IN  /\ timers' = kept \cup {job}
        /\ preview_job' = job
        /\ issued' = issued + 1

\* the trim sliders after App._load_duration and App._sync_trim_labels
LoadedForm(form, path, duration) ==
    IF ~Truthy(duration) \/ duration <= 0
    THEN [form EXCEPT !.input_path = path,
                      !.trim_start_sec = 0, !.trim_end_sec = 0]
    ELSE LET end1  == IF form.trim_end_sec <= 0 THEN duration
                      ELSE form.trim_end_sec
             start == IF form.trim_start_sec > duration THEN 0
                      ELSE form.trim_start_sec
             end2  == Min(end1, duration)
         IN  [form EXCEPT !.input_path = path, !.trim_start_sec = start,
                          !.trim_end_sec = Max(end2, start)]

PreviewInit ==
    /\ fs \in PreviewDisks
    /\ ffmpeg_ok \in BOOLEAN
    /\ encoders = (IF ffmpeg_ok THEN {"libx264", "aac"} ELSE {})
    /\ decoders \in (IF ffmpeg_ok THEN {{"h264"}, {"h264", "vp9"}} ELSE {{}})
    /\ PlanIdle
    /\ ProgressIdle
    /\ ui = PlainForm
    /\ input_list = <<>> /\ runs = <<>> /\ afterq = <<>>
    /\ msgs = <<>> /\ log = <<>> /\ clicks = 0 /\ engine_lines = 0
    /\ PreviewIdle

\* App._pick_input with a file chosen (lines 567-571)
PickInput ==
    /\ issued < MaxRequests
    /\ \E path \in DOMAIN fs :
           LET duration == _get_duration_seconds(path)
           IN  /\ ui' = LoadedForm(ui, path, duration)
               /\ total_duration' = duration
               /\ preview_time' =
                      IF ~Truthy(duration) \/ duration <= 0 THEN 0
                      ELSE Min(preview_time, duration)
    /\ _schedule_preview(TRUE)
    /\ UNCHANGED <<cacheVars, extractions, completions, tmpfiles, envVars,
                   planVars, progress, fed, input_list, runs, afterq, msgs,
                   log, clicks, engine_lines>>

\* the preview slider is moved (line 529)
MoveSlider ==
    /\ issued < MaxRequests
    /\ \E t \in SliderTimes :
           /\ t <= (IF Truthy(total_duration) /\ total_duration > 0
                    THEN total_duration ELSE 1000)
           /\ preview_time' = t
    /\ _schedule_preview(FALSE)
    /\ UNCHANGED <<cacheVars, extractions, completions, tmpfiles, envVars,
                   planVars, progressVars, batchVars>>

\* time passes for the timers that are not due yet
Tick ==
    /\ \E t \in timers : t.left > 0
    /\ timers' = {Job(t.req, Max(0, t.left - TickMs)) : t \in timers}
    /\ UNCHANGED <<cacheVars, preview_time, preview_job, extractions,
                   completions, tmpfiles, issued, envVars, planVars,
                   progressVars, batchVars>>

\* App._generate_preview, run by a timer that is due
GeneratePreview ==
    \E due \in {t \in timers : t.left = 0} :
    /\ timers' = timers \ {due}
    /\ preview_job' = NoJob
    /\ LET path  == Strip(ui.input_path)
           t     == preview_time
           codec == _get_video_codec(path)
           key   == Key(path, t)
       IN  IF path = <<>> \/ ~isfile(path)
           THEN UNCHANGED <<cacheVars, extractions>>
           ELSE IF codec # "" /\ codec \notin decoders
           THEN /\ preview_image' = NoImage
                /\ UNCHANGED <<preview_cache, preview_cache_order, inserted,
                               extractions>>
           ELSE IF key \in DOMAIN preview_cache
           THEN /\ preview_image' = preview_cache[key]
                /\ UNCHANGED <<preview_cache, preview_cache_order, inserted,
                               extractions>>
           ELSE /\ extractions' = extractions
                       \cup {Extraction(due.req, key, path, t)}
                /\ UNCHANGED cacheVars
    /\ UNCHANGED <<preview_time, completions, tmpfiles, issued, envVars,
                   planVars, progressVars, batchVars>>

\* the worker of App._generate_preview creates its temporary file, empty
\* (lines 750-751); the file of request r is named r
CreateTemp ==
    \E e \in extractions :
        /\ e.req \notin DOMAIN tmpfiles
        /\ tmpfiles' = (e.req :> NoImage) @@ tmpfiles
        /\ UNCHANGED <<cacheVars, preview_time, preview_job, timers,
                       extractions, completions, issued, envVars, planVars,
                       progressVars, batchVars>>

\* the rest of the worker (lines 767-779): ffmpeg runs, writes a frame or
\* nothing, and the callback is posted; without ffmpeg subprocess.run
\* raises and the file is removed
ExtractionEnds ==
    \E e \in extractions :
        /\ e.req \in DOMAIN tmpfiles
        /\ extractions' = extractions \ {e}
        /\ IF ffmpeg_ok
           THEN \E frame \in {Image(e.path, e.t), NoImage} :
                    /\ tmpfiles' = [tmpfiles EXCEPT ![e.req] = frame]
                    /\ completions' =
                           Append(completions, Completion(e.req, e.key, e.req))
           ELSE /\ tmpfiles' = [f \in (DOMAIN tmpfiles) \ {e.req} |->
                                    tmpfiles[f]]
                /\ completions' = completions
        /\ UNCHANGED <<cacheVars, preview_time, preview_job, timers, issued,
                       envVars, planVars, progressVars, batchVars>>

PreviewNext ==
    \/ PickInput
    \/ MoveSlider
    \/ Tick
    \/ GeneratePreview
    \/ CreateTemp
    \/ ExtractionEnds
    \/ PreviewDispatch

SpecPreview == PreviewInit /\ [][PreviewNext]_vars

\* a disk where both files reach the preview worker: /a/y.mkv has no
\* video codec that ffprobe names
PreviewLiveInit ==
    /\ PreviewInit
    /\ fs = [Disk EXCEPT ![FileB].codec = ""]
    /\ decoders \subseteq {"h264"}

\* the worker threads run and the main loop keeps running its callbacks
SpecPreviewLive ==
    /\ PreviewLiveInit
    /\ [][PreviewNext]_vars
    /\ WF_vars(CreateTemp)
    /\ WF_vars(ExtractionEnds)
    /\ WF_vars(PreviewDispatch)

\* C4: the completion of a preview extraction that is no longer the most
\* recently issued request leaves the displayed image as it is.
C4_StaleCompletionDiscarded ==
    [][(completions # <<>> /\ completions' = Tail(completions)
            /\ Head(completions).req < issued)
        => preview_image' = preview_image]_vars

\* ------------------------------------------------------------------------
\* Claims about malformed tokens
\* ------------------------------------------------------------------------
MalformedToken(tok) == _parse_time_to_seconds(tok).raised

\* a line whose only token is malformed
MalformedLine(line) ==
    \/ line.hasDur /\ ~line.hasTime /\ MalformedToken(line.dur)
    \/ line.hasTime /\ ~line.hasDur /\ MalformedToken(line.time)

\* the step is the tracker reading this line
Feeds(line) ==
    /\ fed' = fed + 1
    /\ total_duration' = DurationAfter(line)
    /\ progress' = ProgressAfter(line, DurationAfter(line))

\* C11: a line whose duration token or running-time token is malformed
\* leaves the total duration and the percentage as they were.
C11_MalformedLeavesState ==
    [][\A line \in Lines :
           (MalformedLine(line) /\ Feeds(line))
               => /\ total_duration' = total_duration
                  /\ progress' = progress]_vars

\* ------------------------------------------------------------------------
\* Claims about the progress state of a batch
\* ------------------------------------------------------------------------
\* the next callback is the first output line of a job: the log ends with
\* the command echo of that job
FirstLineNext ==
    /\ afterq # <<>>
    /\ Head(afterq).fn = "_append_log" /\ Head(afterq).text = "out"
    /\ log # <<>>
    /\ log[Len(log)].text = "echo" /\ log[Len(log)].run = Head(afterq).run

\* C12: when the first output line of a job is about to be processed, the
\* percentage is 0 and the total duration is absent.
C12_ResetAtJobStart ==
    FirstLineNext => (progress = 0 /\ total_duration = None)

\* ------------------------------------------------------------------------
\* Claims about the preview timer
\* ------------------------------------------------------------------------
\* the step schedules a preview request
Schedules == issued' = issued + 1

\* the step is a timer running App._generate_preview
Fires == timers' # timers /\ preview_job' = NoJob

\* scheduling leaves one timer, that of the new request: with no delay, or
\* with the debounce delay when the file selection is untouched
ScheduleReplaces ==
    Schedules =>
        \/ timers' = {Job(issued', 0)}
        \/ /\ timers' = {Job(issued', DebounceMs)}
           /\ ui' = ui /\ total_duration' = total_duration

\* the timer that fires is the one of the latest request
LatestFires == Fires => (timers = {Job(issued, 0)} /\ timers' = {})

\* C13: at most one preview timer is pending, it belongs to the latest
\* request and is the one App.preview_job names; scheduling cancels the
\* pending timer, so only the last request of a burst generates a preview;
\* a forced request is scheduled with zero delay.
C13_OnePendingPreview ==
    /\ [](Cardinality(timers) <= 1)
    /\ [](\A t \in timers : t.req = issued /\ preview_job.req = t.req)
    /\ [][ScheduleReplaces /\ LatestFires]_vars

\* three requests were scheduled and the only extraction is that of the
\* third, at the slider position of the third
C13_Witness ==
    /\ issued = 3 /\ timers = {} /\ preview_job = NoJob
    /\ preview_time = 600
    /\ extractions = {Extraction(3, Key(FileA, 600), FileA, 600)}
    /\ completions = <<>> /\ inserted = <<>>

\* ------------------------------------------------------------------------
\* Claims about the temporary files
\* ------------------------------------------------------------------------
\* C14: every temporary file created for a preview extraction is
\* eventually deleted, whatever the outcome of the extraction.
C14_TempFilesDeleted ==
    \A f \in 1..MaxRequests :
        (f \in DOMAIN tmpfiles) ~> (f \notin DOMAIN tmpfiles)

\* a temporary file holding no usable image is waiting for its callback
C14_Witness ==
    /\ completions # <<>>
    /\ Head(completions).path \in DOMAIN tmpfiles
    /\ tmpfiles[Head(completions).path] = NoImage

\* ------------------------------------------------------------------------
\* Claims about the log sink
\* ------------------------------------------------------------------------
OfRun(cbs, r) == LET Mine(c) == c.run = r IN SelectSeq(cbs, Mine)

\* what the sink has received from run r, then what is still queued for it
Stream(r) == OfRun(log, r) \o OfRun(afterq, r)

\* a was posted earlier in the worker's program than b
Before(a, b) == a.job < b.job \/ (a.job = b.job /\ a.seq < b.seq)

InOrder(cbs) == \A i, j \in 1..Len(cbs) : i < j => Before(cbs[i], cbs[j])

\* the positions of the log lines of job k of run r: echo is 1, the n-th
\* output line is n + 1
LogSeqs(r, k) ==
    {Stream(r)[i].seq : i \in {j \in 1..Len(Stream(r)) :
        Stream(r)[j].fn = "_append_log" /\ Stream(r)[j].job = k}}

\* C15: for each job the sink receives the command echo and then the
\* output lines in the order the engine printed them, none missing; the
\* lines of a job come before the reset and the lines of the next job; the
\* terminal message comes after the last line of the last job.
C15_LogInOrder ==
    \A r \in RunIds :
        /\ InOrder(Stream(r))
        /\ \A i \in 1..Len(Stream(r)) :
               Stream(r)[i].fn = "_append_log" =>
                   (Stream(r)[i].text = "echo" <=> Stream(r)[i].seq = 1)
        /\ \A k \in 1..Len(runs[r].res) :
               runs[r].res[k].err = "" =>
                   \E n \in 1..(engine_lines + 1) :
                       /\ LogSeqs(r, k) = 1..n
                       /\ (k = runs[r].i /\ runs[r].pc = "stream")
                              => n = runs[r].nlines + 1
        /\ \A m \in 1..Len(msgs) :
               msgs[m].run = r =>
                   /\ OfRun(afterq, r) = <<>>
                   /\ \A i \in 1..Len(Stream(r)) : Before(Stream(r)[i], msgs[m])

\* two jobs of two lines each went through the sink and the batch ended
C15_Witness ==
    /\ Len(runs) = 1 /\ Len(log) = 6 /\ afterq = <<>>
    /\ log[1].text = "echo" /\ log[2].line # log[3].line
    /\ log[4].text = "echo" /\ log[4].job = 2
    /\ Len(msgs) = 1 /\ msgs[1].kind = "info"

\* ------------------------------------------------------------------------
\* Claims about the choice of encoders
\* ------------------------------------------------------------------------
H264VideoList ==
    <<"libx264", "libopenh264", "h264_v4l2m2m", "h264_vaapi", "h264_nvenc",
      "mpeg4">>
WebmVideoList == <<"libvpx-vp9", "libvpx", "vp9", "vp8">>

\* the command re-encodes to a format that is not gif
ReEncodes(v) ==
    \/ Strip(v.format) \in {MP4, MOV, MKV} /\ (v.fps_enabled \/ v.trim_enabled)
    \/ Strip(v.format) = WEBM

\* the command names, after flag, the first entry of list that is in the
\* set, and does not have the flag when no entry is
NamesFirst(cmd, flag, list, set) ==
    IF \A i \in 1..Len(list) : list[i] \notin set
    THEN ~HasTok(cmd, flag)
    ELSE \E i \in 1..Len(list) :
             /\ list[i] \in set
             /\ \A j \in 1..(i - 1) : list[j] \notin set
             /\ HasPair(cmd, flag, list[i])

\* C16: a re-encode to mp4, mov, mkv or webm plans successfully and names
\* after -c:v and -c:a the first entry of the format's preference list
\* that the encoder set contains, or has no such flag when there is none.
C16_FirstPreferredEncoder ==
    (Planned /\ ReEncodes(planIn.values)) =>
        LET fmt == Strip(planIn.values.format)
            cmd == planOut.res.cmd
        IN  /\ planOut.res.err = ""
            /\ NamesFirst(cmd, "-c:v",
                          IF fmt = WEBM THEN WebmVideoList ELSE H264VideoList,
                          encoders)
            /\ NamesFirst(cmd, "-c:a",
                          IF fmt = WEBM THEN AudioPrefsWebm ELSE AudioPrefsAac,
                          encoders)

\* a build with mpeg4 and an h264 hardware encoder but no libx264, and
\* no aac encoder
C16_Witness ==
    /\ Planned /\ ReEncodes(planIn.values)
    /\ encoders = {"mpeg4", "h264_nvenc", "libvpx", "libopus"}
    /\ Strip(planIn.values.format) = MKV
    /\ HasPair(planOut.res.cmd, "-c:v", "h264_nvenc")
    /\ ~HasTok(planOut.res.cmd, "-c:a")

\* ------------------------------------------------------------------------
\* Claims about the cache and its order list
\* ------------------------------------------------------------------------
\* C17: the order list never holds a key twice, the cached keys are the
\* keys of the order list, and the key just inserted is in the cache when
\* the insertion returns.
C17_CacheMatchesOrder ==
    /\ [](Cardinality(Range(preview_cache_order)) = Len(preview_cache_order))
    /\ [](Cached = Range(preview_cache_order))
    /\ [][inserted' # inserted => Last(inserted') \in Cached']_vars

\* ------------------------------------------------------------------------
\* Claims about the output files
\* ------------------------------------------------------------------------
\* C18: in a batch run no two launched jobs have the same output path and
\* no launched job's output path is its own input path.
C18_DistinctOutputPaths ==
    \A r \in RunIds :
        LET res == runs[r].res
        IN  /\ \A j, k \in 1..Len(res) :
                   (j < k /\ res[j].launched /\ res[k].launched)
                       => res[j].out_path # res[k].out_path
            /\ \A k \in 1..Len(res) :
                   res[k].launched => res[k].out_path # runs[r].inputs[k]

====
